---- MODULE Spec2Model ----
(***************************************************************************)
(* Messenger: a publish/subscribe bus for Qt objects (Messenger.h,         *)
(* Messenger.cpp).  The state is the subscription list of the singleton,   *)
(* the receivers' liveness as seen through QPointer, the posted-event      *)
(* queue of every thread, and the position of every thread inside          *)
(* internalSend.                                                           *)
(***************************************************************************)
EXTENDS Integers, Sequences, FiniteSets, TLC

\* ------------------------------------------------------------------ bounds
MaxSubs == 2     \* Register calls made in one behaviour
MaxCalls == 3    \* Register and Send calls made in one behaviour
PerThread == 2   \* Sends every thread issues in the volume scenario
MaxOrder == 3    \* Register calls of the registry-only scenario

\* ------------------------------------------------------------- value sets
Types == {"MyMessage", "AnotherMessage"}
Tokens == {"", "alpha", "beta"}
RegTokens == {"", "alpha"}     \* the tokens subscriptions are registered with
Receivers == {"r1", "r2"}
Null == "null"
Threads == {"main", "worker"}
Callbacks == {"append", "selfUnregister"}

\* QObject::thread(): the thread whose event loop owns the receiver.
thread(receiver) == IF receiver = "r1" THEN "main" ELSE "worker"

VARIABLES
    subscriptions,  \* QList<Subscription>, in list order
    alive,          \* receiver -> the QObject has not been destroyed
    queue,          \* thread -> posted QMetaCallEvents, oldest first
    frame,          \* thread -> its position inside internalSend
    received,       \* receiver -> the callback invocations it has observed
    sent,           \* thread -> number of Send calls it has begun
    nextId,         \* identity of the next Subscription object
    erased          \* history: the ids of the entries erased, by which call,
                    \* and the value of nextId at that call

vars == <<subscriptions, alive, queue, frame, received, sent, nextId, erased>>

\* ---------------------------------------------------------------- helpers
RECURSIVE SumOver(_, _)
SumOver(f, S) ==
    IF S = {} THEN 0
    ELSE LET x == CHOOSE y \in S : TRUE IN f[x] + SumOver(f, S \ {x})

TotalSent == SumOver(sent, Threads)

\* Register and Send calls made so far.
Calls == (nextId - 1) + TotalSent

\* A slot that holds no Subscription: its type equals no type key.
NoEntry == [id |-> 0, type |-> "none", token |-> "", receiver |-> Null,
            callback |-> "append"]

NoMsg == [from |-> "main", seq |-> 0, type |-> "none", token |-> ""]

\* A thread's position inside internalSend: the payload, the iterator and the
\* end() taken at entry, whether the iterators are still valid, the list as it
\* was at entry, and the entries handed to invokeMethod so far.
IdleFrame == [active |-> FALSE, msg |-> NoMsg, it |-> 0, end |-> 0,
              inv |-> FALSE, snap |-> <<>>, done |-> <<>>]

\* MessageToken::isEmpty
isEmpty(token) == token = ""

\* QPointer<QObject>::data(): the receiver, or null once it is destroyed.
data(sub, al) ==
    IF sub.receiver # Null /\ al[sub.receiver] THEN sub.receiver ELSE Null

\* QPointer<QObject>::isNull
isNull(sub, al) == data(sub, al) = Null

\* ------------------------------------------------------------- the registry
\* Mutant: ++it also after an erase, so the entry that follows an erased one
\* is never tested.
RECURSIVE UnregisterLoopSkipsNext(_, _, _)
UnregisterLoopSkipsNext(list, receiver, al) ==
    IF list = <<>> THEN <<>>
    ELSE IF data(Head(list), al) = receiver
         THEN IF Tail(list) = <<>> THEN <<>>
              ELSE <<Head(Tail(list))>>
                      \o UnregisterLoopSkipsNext(Tail(Tail(list)), receiver, al)
         ELSE <<Head(list)>> \o UnregisterLoopSkipsNext(Tail(list), receiver, al)

\* Mutant: the loop stops at the first entry it erases.
RECURSIVE UnregisterLoopFirstOnly(_, _, _)
UnregisterLoopFirstOnly(list, receiver, al) ==
    IF list = <<>> THEN <<>>
    ELSE IF data(Head(list), al) = receiver
         THEN Tail(list)
         ELSE <<Head(list)>> \o UnregisterLoopFirstOnly(Tail(list), receiver, al)

\* Mutant: the comparison is !=, so the entries of every other receiver are
\* erased and the receiver's own stay.
RECURSIVE UnregisterLoopOthers(_, _, _)
UnregisterLoopOthers(list, receiver, al) ==
    IF list = <<>> THEN <<>>
    ELSE IF data(Head(list), al) # receiver
         THEN UnregisterLoopOthers(Tail(list), receiver, al)
         ELSE <<Head(list)>> \o UnregisterLoopOthers(Tail(list), receiver, al)

\* Messenger::Unregister(QObject*), the loop of lines 10-16: erase every
\* entry whose QPointer still reads `receiver`, keep the others in order.
RECURSIVE UnregisterLoop(_, _, _)
UnregisterLoop(list, receiver, al) ==
    IF list = <<>> THEN <<>>
    ELSE IF data(Head(list), al) = receiver
         THEN UnregisterLoop(Tail(list), receiver, al)
         ELSE <<Head(list)>> \o UnregisterLoop(Tail(list), receiver, al)

\* Mutant: the null test is inverted, so a call with a receiver returns at once.
UnregisterAllReturnsEarly(list, receiver, al) ==
    IF receiver # Null THEN list ELSE UnregisterLoop(list, receiver, al)

\* Messenger::Unregister(QObject*): a null receiver returns at once.
UnregisterAll(list, receiver, al) ==
    IF receiver = Null THEN list ELSE UnregisterLoop(list, receiver, al)

\* Mutant: the erase condition uses the delivery rule, so a stored wildcard
\* token is erased by a call that names a token.
UnregisterTMatchAsDelivery(sub, receiver, type, token, al) ==
    /\ data(sub, al) = receiver
    /\ sub.type = type
    /\ (isEmpty(sub.token) \/ isEmpty(token) \/ sub.token = token)

\* Messenger::Unregister<TMsg>(QObject*, token): the erase condition.
UnregisterTMatch(sub, receiver, type, token, al) ==
    /\ data(sub, al) = receiver
    /\ sub.type = type
    /\ (isEmpty(token) \/ sub.token = token)

\* Messenger::Unregister<TMsg>(QObject*, token): no null check before the loop.
RECURSIVE UnregisterT(_, _, _, _, _)
UnregisterT(list, receiver, type, token, al) ==
    IF list = <<>> THEN <<>>
    ELSE IF UnregisterTMatch(Head(list), receiver, type, token, al)
         THEN UnregisterT(Tail(list), receiver, type, token, al)
         ELSE <<Head(list)>> \o UnregisterT(Tail(list), receiver, type, token, al)

\* Mutant: ++it also after an erase, so the entry that follows an erased one
\* is never tested.
RECURSIVE CleanupLoopSkipsNext(_, _)
CleanupLoopSkipsNext(list, al) ==
    IF list = <<>> THEN <<>>
    ELSE IF isNull(Head(list), al)
         THEN IF Tail(list) = <<>> THEN <<>>
              ELSE <<Head(Tail(list))>>
                      \o CleanupLoopSkipsNext(Tail(Tail(list)), al)
         ELSE <<Head(list)>> \o CleanupLoopSkipsNext(Tail(list), al)

\* Messenger::Cleanup: erase every entry whose QPointer reads null.
RECURSIVE CleanupLoop(_, _)
CleanupLoop(list, al) ==
    IF list = <<>> THEN <<>>
    ELSE IF isNull(Head(list), al)
         THEN CleanupLoop(Tail(list), al)
         ELSE <<Head(list)>> \o CleanupLoop(Tail(list), al)

\* Mutant: the new entry is put at the head of the list.
internalRegisterPrepends(list, id, type, token, receiver, cb) ==
    <<[id |-> id, type |-> type, token |-> token,
       receiver |-> receiver, callback |-> cb]>> \o list

\* Messenger::internalRegister: append, whatever the receiver is.
internalRegister(list, id, type, token, receiver, cb) ==
    Append(list, [id |-> id, type |-> type, token |-> token,
                  receiver |-> receiver, callback |-> cb])

\* Messenger::internalSend line 36.
tokenMatch(sub, token) ==
    isEmpty(sub.token) \/ isEmpty(token) \/ sub.token = token

\* Mutant: the type test of line 35 is missing.
SelectedAnyType(sub, msg, al) ==
    /\ tokenMatch(sub, msg.token)
    /\ ~isNull(sub, al)

\* Mutant: the receiver.isNull() test of line 38 is missing.
SelectedDeadToo(sub, msg, al) ==
    /\ sub.type = msg.type
    /\ tokenMatch(sub, msg.token)
    /\ sub.receiver # Null

\* Messenger::internalSend lines 35-38: the entry is handed to invokeMethod.
Selected(sub, msg, al) ==
    /\ sub.type = msg.type
    /\ tokenMatch(sub, msg.token)
    /\ ~isNull(sub, al)

\* The list has no lock: an erase or an append made while a thread is inside
\* the range-for of internalSend invalidates that thread's iterators.
Invalidate(fr, changed) ==
    [t \in Threads |->
        IF changed /\ fr[t].active THEN [fr[t] EXCEPT !.inv = TRUE] ELSE fr[t]]

\* What the iterator of a Send reads at its position.  A valid iterator
\* reads the entry at that position.  An invalidated one is undefined
\* behaviour: the slot may hold any entry now in the list, the entry it held
\* when the loop began, or nothing that passes the type test.
Deref(f) ==
    IF f.inv
    THEN {subscriptions[i] : i \in DOMAIN subscriptions}
            \cup {f.snap[f.it]} \cup {NoEntry}
    ELSE {subscriptions[f.it]}

\* The callbacks of the test receivers: "append" records the message
\* (TestReceiver::onMessage); "selfUnregister" first unregisters its receiver
\* when it has recorded nothing yet (self_unregister_in_callback).
CallbackSubs(sub, list, rcv, al) ==
    IF sub.callback = "selfUnregister" /\ rcv[sub.receiver] = <<>>
    THEN UnregisterAll(list, sub.receiver, al)
    ELSE list

CallbackReceived(sub, msg, by, rcv) ==
    [rcv EXCEPT ![sub.receiver] =
        Append(@, [msg |-> msg, sub |-> sub, by |-> by])]

\* History of the erasures: the entries of `before` missing from `after`.
Erase(before, after, call) ==
    erased \cup {[id |-> before[i].id, by |-> call, next |-> nextId] :
                    i \in {j \in DOMAIN before :
                            \A k \in DOMAIN after : after[k] # before[j]}}

\* Mutant: the event is put at the head of the queue.
PostFront(q, task) == <<task>> \o q

\* Mutant: the event replaces the events that are pending.
PostOverwrites(q, task) == <<task>>

\* QCoreApplication::postEvent on the receiver's thread: appended last.
Post(q, task) == Append(q, task)

Init ==
    /\ subscriptions = <<>>
    /\ alive = [r \in Receivers |-> TRUE]
    /\ queue = [t \in Threads |-> <<>>]
    /\ frame = [t \in Threads |-> IdleFrame]
    /\ received = [r \in Receivers |-> <<>>]
    /\ sent = [t \in Threads |-> 0]
    /\ nextId = 1
    /\ erased = {}

\* ----------------------------------------------------------------- actions
\* A thread makes the calls below when it is not inside internalSend (a
\* thread inside it reaches the registry only through a callback).

\* Messenger::Register<TMsg>(receiver, callback, token) called by thread t.
Register(t, type, token, receiver, cb) ==
    /\ ~frame[t].active
    /\ nextId <= MaxSubs
    /\ Calls < MaxCalls
    /\ subscriptions' = internalRegister(subscriptions, nextId, type, token,
                                         receiver, cb)
    /\ nextId' = nextId + 1
    /\ frame' = Invalidate(frame, TRUE)
    /\ UNCHANGED <<alive, queue, received, sent, erased>>

\* Mutant: the call also removes the functors already posted to the receiver.
UnregisterDropsPosted(t, receiver) ==
    /\ ~frame[t].active
    /\ subscriptions' = UnregisterAll(subscriptions, receiver, alive)
    /\ frame' = Invalidate(frame, subscriptions' # subscriptions)
    /\ erased' = Erase(subscriptions, subscriptions', "Unregister")
    /\ queue' = [q \in Threads |->
                    SelectSeq(queue[q], LAMBDA k : k.sub.receiver # receiver)]
    /\ UNCHANGED <<alive, received, sent, nextId>>

\* Messenger::Unregister(receiver) called by thread t.
Unregister(t, receiver) ==
    /\ ~frame[t].active
    /\ subscriptions' = UnregisterAll(subscriptions, receiver, alive)
    /\ frame' = Invalidate(frame, subscriptions' # subscriptions)
    /\ erased' = Erase(subscriptions, subscriptions', "Unregister")
    /\ UNCHANGED <<alive, queue, received, sent, nextId>>

\* Messenger::Unregister<TMsg>(receiver, token) called by thread t.
UnregisterTyped(t, receiver, type, token) ==
    /\ ~frame[t].active
    /\ subscriptions' = UnregisterT(subscriptions, receiver, type, token, alive)
    /\ frame' = Invalidate(frame, subscriptions' # subscriptions)
    /\ erased' = Erase(subscriptions, subscriptions', "UnregisterT")
    /\ UNCHANGED <<alive, queue, received, sent, nextId>>

\* Messenger::Cleanup called by thread t.
Cleanup(t) ==
    /\ ~frame[t].active
    /\ subscriptions' = CleanupLoop(subscriptions, alive)
    /\ frame' = Invalidate(frame, subscriptions' # subscriptions)
    /\ erased' = Erase(subscriptions, subscriptions', "Cleanup")
    /\ UNCHANGED <<alive, queue, received, sent, nextId>>

\* ~QObject: every QPointer to the receiver reads null from now on and the
\* events posted to it are removed from its thread's queue.
Destroy(receiver) ==
    /\ alive[receiver]
    /\ alive' = [alive EXCEPT ![receiver] = FALSE]
    /\ queue' = [t \in Threads |->
                    SelectSeq(queue[t], LAMBDA k : k.sub.receiver # receiver)]
    /\ UNCHANGED <<subscriptions, frame, received, sent, nextId, erased>>

\* Messenger::Send<TMsg>(message, token) entered by thread t: the range-for
\* of internalSend takes begin() and end() of the list itself.
SendBegin(t, type, token) ==
    /\ ~frame[t].active
    /\ sent' = [sent EXCEPT ![t] = @ + 1]
    /\ frame' = [frame EXCEPT ![t] =
                    [active |-> TRUE,
                     msg |-> [from |-> t, seq |-> sent[t] + 1,
                              type |-> type, token |-> token],
                     it |-> 1, end |-> Len(subscriptions),
                     inv |-> FALSE, snap |-> subscriptions, done |-> <<>>]]
    /\ UNCHANGED <<subscriptions, alive, queue, received, nextId, erased>>

\* Mutant: Qt::DirectConnection, the functor always runs on the calling thread.
invokeMethodDirect(t, sub, msg) ==
    /\ subscriptions' = CallbackSubs(sub, subscriptions, received, alive)
    /\ received' = CallbackReceived(sub, msg, t, received)
    /\ frame' = [Invalidate(frame, subscriptions' # subscriptions)
                   EXCEPT ![t].it = @ + 1, ![t].done = Append(@, sub)]
    /\ erased' = Erase(subscriptions, subscriptions', "callback")
    /\ UNCHANGED queue

\* Mutant: the call to a receiver on another thread posts nothing.
invokeMethodInlineOnly(t, sub, msg) ==
    IF thread(sub.receiver) = t
    THEN /\ subscriptions' = CallbackSubs(sub, subscriptions, received, alive)
         /\ received' = CallbackReceived(sub, msg, t, received)
         /\ frame' = [Invalidate(frame, subscriptions' # subscriptions)
                        EXCEPT ![t].it = @ + 1, ![t].done = Append(@, sub)]
         /\ erased' = Erase(subscriptions, subscriptions', "callback")
         /\ UNCHANGED queue
    ELSE /\ frame' = [frame EXCEPT ![t].it = @ + 1,
                                   ![t].done = Append(@, sub)]
         /\ UNCHANGED <<subscriptions, received, erased, queue>>

\* QMetaObject::invokeMethod(sub.receiver, functor, Qt::AutoConnection) by
\* thread t, then ++it: the functor runs at once when the receiver lives on
\* t, and is posted to the receiver's thread otherwise.  Nothing in
\* internalSend or in invokeMethod catches: an exception thrown by a functor
\* that runs at once leaves the loop and internalSend.
invokeMethod(t, sub, msg) ==
    IF thread(sub.receiver) = t
    THEN /\ subscriptions' = CallbackSubs(sub, subscriptions, received, alive)
         /\ received' = CallbackReceived(sub, msg, t, received)
         /\ frame' = IF sub.callback = "throws"
                     THEN [frame EXCEPT ![t] = IdleFrame]
                     ELSE [Invalidate(frame, subscriptions' # subscriptions)
                             EXCEPT ![t].it = @ + 1,
                                    ![t].done = Append(@, sub)]
         /\ erased' = Erase(subscriptions, subscriptions', "callback")
         /\ UNCHANGED queue
    ELSE /\ queue' = [queue EXCEPT ![thread(sub.receiver)] =
                        Post(@, [sub |-> sub, msg |-> msg])]
         /\ frame' = [frame EXCEPT ![t].it = @ + 1,
                                   ![t].done = Append(@, sub)]
         /\ UNCHANGED <<subscriptions, received, erased>>

\* One iteration of the loop of internalSend by thread t.
SendStep(t) ==
    /\ frame[t].active
    /\ frame[t].it <= frame[t].end
    /\ \E sub \in Deref(frame[t]) :
          IF Selected(sub, frame[t].msg, alive)
          THEN invokeMethod(t, sub, frame[t].msg)
          ELSE /\ frame' = [frame EXCEPT ![t].it = @ + 1]
               /\ UNCHANGED <<subscriptions, queue, received, erased>>
    /\ UNCHANGED <<alive, sent, nextId>>

\* Mutant: internalSend prunes the entries of destroyed receivers on its way
\* out.
SendReturnCleans(t) ==
    /\ frame[t].active
    /\ frame[t].it > frame[t].end
    /\ subscriptions' = CleanupLoop(subscriptions, alive)
    /\ frame' = [Invalidate(frame, subscriptions' # subscriptions)
                   EXCEPT ![t] = IdleFrame]
    /\ erased' = Erase(subscriptions, subscriptions', "Cleanup")
    /\ UNCHANGED <<alive, queue, received, sent, nextId>>

\* internalSend returns: the iterator has reached the end() taken at entry.
SendReturn(t) ==
    /\ frame[t].active
    /\ frame[t].it > frame[t].end
    /\ frame' = [frame EXCEPT ![t] = IdleFrame]
    /\ UNCHANGED <<subscriptions, alive, queue, received, sent, nextId,
                   erased>>

\* Mutant: the event loop takes the event posted last.
DrainNewest(t) ==
    /\ ~frame[t].active
    /\ queue[t] # <<>>
    /\ LET task == queue[t][Len(queue[t])] IN
          /\ subscriptions' =
                CallbackSubs(task.sub, subscriptions, received, alive)
          /\ received' = CallbackReceived(task.sub, task.msg, t, received)
          /\ frame' = Invalidate(frame, subscriptions' # subscriptions)
          /\ erased' = Erase(subscriptions, subscriptions', "callback")
    /\ queue' = [queue EXCEPT ![t] = SubSeq(@, 1, Len(@) - 1)]
    /\ UNCHANGED <<alive, sent, nextId>>

\* The event loop of thread t, which is not inside a Send, runs the oldest
\* posted functor: sub.callback(payload) on the copy of sub it captured.
Drain(t) ==
    /\ ~frame[t].active
    /\ queue[t] # <<>>
    /\ LET task == Head(queue[t]) IN
          /\ subscriptions' =
                CallbackSubs(task.sub, subscriptions, received, alive)
          /\ received' = CallbackReceived(task.sub, task.msg, t, received)
          /\ frame' = Invalidate(frame, subscriptions' # subscriptions)
          /\ erased' = Erase(subscriptions, subscriptions', "callback")
    /\ queue' = [queue EXCEPT ![t] = Tail(@)]
    /\ UNCHANGED <<alive, sent, nextId>>

\* The calls thread t can make on the bus.
Call(t) ==
    \/ \E type \in Types, token \in RegTokens,
          receiver \in Receivers, cb \in Callbacks :
          Register(t, type, token, receiver, cb)
    \/ \E type \in Types, token \in RegTokens :
          Register(t, type, token, Null, "append")
    \/ \E receiver \in Receivers \cup {Null} : Unregister(t, receiver)
    \/ \E receiver \in Receivers \cup {Null},
          type \in Types, token \in Tokens :
          UnregisterTyped(t, receiver, type, token)
    \/ Cleanup(t)
    \/ \E type \in Types, token \in Tokens :
          Calls < MaxCalls /\ SendBegin(t, type, token)
    \/ SendStep(t)
    \/ SendReturn(t)

\* The usage the README advises and the tests follow: the main thread alone
\* calls the bus; every thread runs its event loop, and with it the callbacks
\* of the receivers it owns.
Next ==
    \/ Call("main")
    \/ \E t \in Threads : Drain(t)
    \/ \E receiver \in Receivers : Destroy(receiver)

\* Every thread calls the bus and runs its event loop.
NextThreads ==
    \/ \E t \in Threads : Call(t)
    \/ \E t \in Threads : Drain(t)
    \/ \E receiver \in Receivers : Destroy(receiver)

Spec == Init /\ [][Next]_vars

SpecThreads == Init /\ [][NextThreads]_vars

\* ----------------------------------------------- the scenarios of the tests
\* One receiver registered once with TestReceiver::onMessage, before any Send.
InitOne(type, token, receiver) ==
    /\ subscriptions =
          internalRegister(<<>>, 1, type, token, receiver, "append")
    /\ alive = [r \in Receivers |-> TRUE]
    /\ queue = [t \in Threads |-> <<>>]
    /\ frame = [t \in Threads |-> IdleFrame]
    /\ received = [r \in Receivers |-> <<>>]
    /\ sent = [t \in Threads |-> 0]
    /\ nextId = 2
    /\ erased = {}

\* multi_thread_send_pressure and order_preservation_single_receiver: the
\* subscriber takes every token, and lives on either thread.
InitVolume == \E receiver \in Receivers : InitOne("MyMessage", "", receiver)

\* The loop of every sending thread: PerThread Sends, one after another.
VolumeSend(t) ==
    \E token \in Tokens :
        sent[t] < PerThread /\ SendBegin(t, "MyMessage", token)

NextVolume ==
    \/ \E t \in Threads : VolumeSend(t)
    \/ \E t \in Threads : SendStep(t)
    \/ \E t \in Threads : SendReturn(t)
    \/ \E t \in Threads : Drain(t)

\* Every thread keeps running, and every event loop keeps taking events.
SpecVolume ==
    /\ InitVolume
    /\ [][NextVolume]_vars
    /\ \A t \in Threads :
          /\ WF_vars(VolumeSend(t) \/ SendStep(t) \/ SendReturn(t))
          /\ WF_vars(Drain(t))

\* send_then_immediate_unregister_race_same_thread and _cross_thread: the
\* main thread runs Send(m1); Unregister(r); Send(m2) for the one receiver r
\* that is registered, which lives on the main thread or on the worker.
InitRace ==
    \E receiver \in Receivers, type \in Types, token \in RegTokens :
        InitOne(type, token, receiver)

\* Send(m1): a message the subscription matches.
RaceSend1 ==
    \E token \in Tokens :
        /\ sent["main"] = 0
        /\ tokenMatch(subscriptions[1], token)
        /\ SendBegin("main", subscriptions[1].type, token)

\* Unregister(r), once Send(m1) has returned.
RaceUnregister ==
    /\ sent["main"] = 1
    /\ subscriptions # <<>>
    /\ Unregister("main", subscriptions[1].receiver)

\* Send(m2), once Unregister(r) has returned.
RaceSend2 ==
    \E type \in Types, token \in Tokens :
        /\ sent["main"] = 1
        /\ subscriptions = <<>>
        /\ SendBegin("main", type, token)

NextRace ==
    \/ RaceSend1
    \/ RaceUnregister
    \/ RaceSend2
    \/ SendStep("main")
    \/ SendReturn("main")
    \/ \E t \in Threads : Drain(t)

SpecRace == InitRace /\ [][NextRace]_vars

\* A receiver on the main thread whose callback throws and a second
\* subscription with TestReceiver::onMessage, registered in either order;
\* the main thread then sends.
InitThrow ==
    \E first \in BOOLEAN, other \in Receivers,
       type1 \in Types, type2 \in Types,
       token1 \in RegTokens, token2 \in RegTokens :
        /\ subscriptions =
              IF first
              THEN internalRegister(
                      internalRegister(<<>>, 1, type1, token1, "r1", "throws"),
                      2, type2, token2, other, "append")
              ELSE internalRegister(
                      internalRegister(<<>>, 1, type2, token2, other, "append"),
                      2, type1, token1, "r1", "throws")
        /\ alive = [r \in Receivers |-> TRUE]
        /\ queue = [t \in Threads |-> <<>>]
        /\ frame = [t \in Threads |-> IdleFrame]
        /\ received = [r \in Receivers |-> <<>>]
        /\ sent = [t \in Threads |-> 0]
        /\ nextId = 3
        /\ erased = {}

ThrowSend ==
    \E type \in Types, token \in Tokens :
        sent["main"] < PerThread /\ SendBegin("main", type, token)

NextThrow ==
    \/ ThrowSend
    \/ SendStep("main")
    \/ SendReturn("main")
    \/ \E t \in Threads : Drain(t)

SpecThrow == InitThrow /\ [][NextThrow]_vars

\* unregister_by_type_and_token, cleanup_removes_dead_receivers and
\* re_register_after_unregister: the main thread registers, unregisters and
\* cleans up while no Send is running, and receivers are destroyed.
OrderRegister ==
    \E type \in Types, token \in RegTokens, receiver \in Receivers \cup {Null} :
        /\ nextId <= MaxOrder
        /\ subscriptions' = internalRegister(subscriptions, nextId, type,
                                             token, receiver, "append")
        /\ nextId' = nextId + 1
        /\ UNCHANGED <<alive, queue, frame, received, sent, erased>>

NextOrder ==
    \/ OrderRegister
    \/ \E receiver \in Receivers \cup {Null} : Unregister("main", receiver)
    \/ \E receiver \in Receivers \cup {Null},
          type \in Types, token \in Tokens :
          UnregisterTyped("main", receiver, type, token)
    \/ Cleanup("main")
    \/ \E receiver \in Receivers : Destroy(receiver)

SpecOrder == Init /\ [][NextOrder]_vars

\* ------------------------------------------------------- claim vocabulary
Range(seq) == {seq[i] : i \in DOMAIN seq}

\* The number of positions of seq that satisfy Test.
Count(seq, Test(_)) == Cardinality({i \in DOMAIN seq : Test(seq[i])})

\* Thread t has run its loop to the end() it took and is about to return.
AtReturn(t) == frame[t].active /\ frame[t].it > frame[t].end

\* The token rule of the specification, section 4.1.
RuleMatches(subToken, sendToken) ==
    subToken = "" \/ sendToken = "" \/ subToken = sendToken

\* The entries of the snapshot of thread t's Send that are still registered,
\* whose receiver is alive, and whose type is the type sent.
LiveOfType(t) ==
    {e \in Range(frame[t].snap) \cap Range(subscriptions) :
        /\ e.receiver # Null
        /\ alive[e.receiver]
        /\ e.type = frame[t].msg.type}

\* How many times thread t's Send handed entry e to invokeMethod.
Deliveries(t, e) == Count(frame[t].done, LAMBDA d : d = e)

\* C1 (as claimed): when a Send returns, every live subscription of the type sent has
\* been handed the message if and only if its token is empty, the send token
\* is empty, or the two tokens are equal.
C1_TokenMatching ==
    \A t \in Threads :
        AtReturn(t) =>
            \A e \in LiveOfType(t) :
                Deliveries(t, e) > 0 <=> RuleMatches(e.token, frame[t].msg.token)


\* C2: type isolation.  Whatever was registered, unregistered or sent, every
\* callback invocation made or posted so far handed an entry a message of
\* the type the entry was registered for.
C2_TypeIsolation ==
    /\ \A r \in Receivers : \A i \in DOMAIN received[r] :
            received[r][i].sub.type = received[r][i].msg.type
    /\ \A t \in Threads : \A i \in DOMAIN queue[t] :
            queue[t][i].sub.type = queue[t][i].msg.type
    /\ \A t \in Threads : \A i \in DOMAIN frame[t].done :
            frame[t].done[i].type = frame[t].msg.type

\* A Send has run over a registered live entry of another type, whose token
\* matches the token sent, and is about to return without having invoked it.
C2_Witness ==
    \E t \in Threads :
        /\ AtReturn(t)
        /\ frame[t].snap = subscriptions
        /\ \E e \in Range(subscriptions) :
              /\ e.receiver # Null
              /\ alive[e.receiver]
              /\ e.type # frame[t].msg.type
              /\ RuleMatches(e.token, frame[t].msg.token)
              /\ received[e.receiver] = <<>>

\* C3 (as claimed): when a Send returns, every live registered entry of the
\* type sent whose token matches has been handed the message exactly once.
C3_OneDeliveryPerEntry ==
    \A t \in Threads :
        AtReturn(t) =>
            \A e \in LiveOfType(t) :
                RuleMatches(e.token, frame[t].msg.token) => Deliveries(t, e) = 1

\* The QPointer of entry e still refers to receiver r.
Refers(e, r) == e.receiver = r /\ alive[r]

NoEntryOf(list, r) == \A i \in DOMAIN list : list[i].receiver # r

\* The entries thread t's Send hands to invokeMethod in this step.
NewlyDone(t) ==
    {frame'[t].done[i] : i \in DOMAIN frame'[t].done \ DOMAIN frame[t].done}

\* C4: Unregister(receiver) erases exactly the entries whose receiver is that
\* receiver, of every type and token, and keeps the others in their order;
\* and a Send that began when the receiver had no entry, the receiver not
\* being registered since, hands no message to that receiver.
C4_UnregisterReceiver ==
    [][/\ \A t \in Threads, r \in Receivers :
              Unregister(t, r) =>
                  subscriptions' =
                      SelectSeq(subscriptions, LAMBDA e : ~Refers(e, r))
       /\ \A t \in Threads, r \in Receivers :
              (/\ frame[t].active
               /\ frame'[t].active
               /\ NoEntryOf(frame[t].snap, r)
               /\ NoEntryOf(subscriptions, r))
                  => \A e \in NewlyDone(t) : e.receiver # r]_vars

\* Unregister erased entry 1 while entry 2 was registered; entry 2 is still
\* registered, and a Send that began afterwards has delivered to entry 2 alone.
C4_Witness ==
    \E t \in Threads :
        /\ AtReturn(t)
        /\ [id |-> 1, by |-> "Unregister", next |-> 3] \in erased
        /\ Len(subscriptions) = 1
        /\ subscriptions[1].id = 2
        /\ frame[t].snap = subscriptions
        /\ frame[t].done = subscriptions

\* C5: in every registry state, and for every receiver, with or without
\* entries, a second Unregister(receiver) leaves the list as the first left it.
C5_UnregisterIdempotent ==
    \A r \in Receivers \cup {Null} :
        UnregisterAll(UnregisterAll(subscriptions, r, alive), r, alive)
            = UnregisterAll(subscriptions, r, alive)

\* One Unregister call has erased two entries of a receiver, and the receiver
\* has no entry now: a further call finds nothing to erase.
C5_Witness ==
    /\ [id |-> 1, by |-> "Unregister", next |-> 3] \in erased
    /\ [id |-> 2, by |-> "Unregister", next |-> 3] \in erased
    /\ subscriptions = <<>>

\* C6: Unregister<T>(receiver, token) erases exactly the entries of the
\* receiver and of type T whose stored token is the token given, or all of
\* them when the token given is empty; every other entry, the receiver's
\* entries with another token or with the empty token among them, stays.
C6_TypedUnregisterRule ==
    [][\A t \in Threads, r \in Receivers, type \in Types, token \in Tokens :
          UnregisterTyped(t, r, type, token) =>
              subscriptions' =
                  SelectSeq(subscriptions,
                            LAMBDA e : ~(/\ Refers(e, r)
                                         /\ e.type = type
                                         /\ (token = "" \/ e.token = token)))]_vars

\* Unregister<T>(receiver, "alpha") erased the receiver's "alpha" entry and
\* left its wildcard entry of the same type, which a later Send has reached.
C6_Witness ==
    \E t \in Threads :
        /\ \E n \in {1, 2} :
              /\ [id |-> n, by |-> "UnregisterT", next |-> 3] \in erased
              /\ Len(subscriptions) = 1
              /\ subscriptions[1].id = 3 - n
        /\ subscriptions[1].token = ""
        /\ AtReturn(t)
        /\ frame[t].msg.token = "alpha"
        /\ frame[t].done = subscriptions

\* The receivers whose first invocation ran a callback that unregisters its
\* receiver, with the entry that callback belongs to.
First(r) == received[r][1].sub

SelfUnregistered(r) ==
    received[r] # <<>> /\ First(r).callback = "selfUnregister"

\* The messages the entry of r's first invocation has been invoked for.
MessagesOf(r) ==
    {received[r][i].msg :
        i \in {j \in DOMAIN received[r] : received[r][j].sub = First(r)}}

\* C7 (as claimed): a receiver whose callback unregisters it on the first
\* message is invoked for that one message and for no other, on the sender's
\* context or on another one, also when further messages were already queued
\* for it.
C7_SelfUnregisterOnce ==
    \A r \in Receivers :
        SelfUnregistered(r) => Cardinality(MessagesOf(r)) = 1

\* C7 (amended): such a receiver is invoked for one message at most of those
\* sent from its own context, and no Send that begins after the callback has
\* erased its entry hands that entry a message; what was posted to the
\* receiver's queue before the callback ran is still executed.
C7_SelfUnregisterOwnContext ==
    /\ [](\A r \in Receivers :
            SelfUnregistered(r) =>
                Cardinality({m \in MessagesOf(r) : m.from = thread(r)}) <= 1)
    /\ [][\A r \in Receivers, t \in Threads :
            (/\ SelfUnregistered(r)
             /\ frame[t].active
             /\ frame'[t].active
             /\ First(r) \notin Range(frame[t].snap))
                => First(r) \notin NewlyDone(t)]_vars

\* The receiver on the main thread unregistered itself in the callback of the
\* first message; a second Send of the same type and token from the main
\* thread is about to return and has invoked nothing.
C7_Witness ==
    /\ SelfUnregistered("r1")
    /\ Len(received["r1"]) = 1
    /\ received["r1"][1].msg.from = "main"
    /\ [id |-> First("r1").id, by |-> "callback", next |-> 2] \in erased
    /\ AtReturn("main")
    /\ frame["main"].msg.seq = 2
    /\ frame["main"].msg.type = First("r1").type
    /\ frame["main"].msg.token = received["r1"][1].msg.token
    /\ frame["main"].done = <<>>
    /\ alive["r1"]

\* The records of seq that come from one sender keep the order of its Sends.
InSendOrder(seq) ==
    \A i, j \in DOMAIN seq :
        (i < j /\ seq[i].msg.from = seq[j].msg.from)
            => seq[i].msg.seq < seq[j].msg.seq

\* No message is recorded twice.
NoDuplicates(seq) ==
    \A i, j \in DOMAIN seq : i # j => seq[i].msg # seq[j].msg

\* The race tests' body has run to its end and every queue is empty.
RaceOver ==
    /\ sent["main"] = 2
    /\ ~frame["main"].active
    /\ \A t \in Threads : queue[t] = <<>>

\* C8: when the main thread runs Send(m1); Unregister(r); Send(m2) for a
\* receiver r registered once, on its own thread or on the worker, r is never
\* invoked for m2 and at most once for m1, and once everything posted has run
\* r has been invoked for m1 exactly once and no other receiver at all.
C8_SendUnregisterSend ==
    /\ \A r \in Receivers :
          /\ Len(received[r]) <= 1
          /\ \A i \in DOMAIN received[r] :
                /\ received[r][i].msg.seq = 1
                /\ received[r][i].sub.receiver = r
                /\ received[r][i].sub.id = 1
    /\ RaceOver => Cardinality({r \in Receivers : Len(received[r]) = 1}) = 1

\* m1 is still in the worker's queue when Unregister(r) has returned and
\* Send(m2) has run its loop.
C8_Witness ==
    /\ sent["main"] = 2
    /\ AtReturn("main")
    /\ Len(queue["worker"]) = 1
    /\ queue["worker"][1].msg.seq = 1
    /\ [id |-> 1, by |-> "Unregister", next |-> 2] \in erased
    /\ received["r2"] = <<>>

\* The one subscriber of the volume scenario.
Subscriber == subscriptions[1].receiver

\* C9: when every thread issues PerThread Sends to one subscriber that stays
\* registered and alive, no message is delivered twice and in the end the
\* subscriber has been invoked once for every Send of every thread.
C9_ConcurrentVolume ==
    /\ [](\A r \in Receivers :
            /\ NoDuplicates(received[r])
            /\ Len(received[r]) <= Cardinality(Threads) * PerThread)
    /\ <>[](Len(received[Subscriber]) = Cardinality(Threads) * PerThread)

\* The subscriber on the main thread has been invoked for all the Sends of
\* both threads, those of the worker through its queue.
C9_Witness ==
    /\ Subscriber = "r1"
    /\ Len(received["r1"]) = Cardinality(Threads) * PerThread
    /\ \E i \in DOMAIN received["r1"] : received["r1"][i].msg.from = "worker"
    /\ \E i \in DOMAIN received["r1"] : received["r1"][i].msg.from = "main"

\* C10: a receiver registered once observes the messages one thread sends in
\* the order of the Sends, on the sender's thread and on another one.
C10_SingleReceiverOrder ==
    \A r \in Receivers : InSendOrder(received[r])

\* The receiver on the worker has observed both messages of the main thread,
\* and the receiver's own thread has sent it a message as well.
C10_Witness ==
    /\ Subscriber = "r2"
    /\ Count(received["r2"], LAMBDA k : k.msg.from = "main") = PerThread
    /\ Count(received["r2"], LAMBDA k : k.msg.from = "worker") >= 1

\* The entry's receiver is an object that has not been destroyed.
Live(e) == e.receiver \in Receivers /\ alive[e.receiver]

\* The functors posted to receiver r that are waiting in a queue.
Posted(q, r) ==
    {<<t, i>> \in Threads \X (1..MaxCalls) :
        i \in DOMAIN q[t] /\ q[t][i].sub.receiver = r}

\* C11: Cleanup erases exactly the entries whose receiver is not alive at the
\* call and keeps the entries of live receivers in place; and while the list
\* holds no entry of a destroyed receiver, no step invokes that receiver or
\* posts a functor to it.
C11_CleanupPrunesDead ==
    [][/\ \A t \in Threads :
              Cleanup(t) => subscriptions' = SelectSeq(subscriptions, Live)
       /\ \A r \in Receivers :
              (~alive[r] /\ \A i \in DOMAIN subscriptions :
                                subscriptions[i].receiver # r)
                  => /\ received'[r] = received[r]
                     /\ Posted(queue', r) = {}]_vars

\* r1 was registered and destroyed, Cleanup erased its entry and kept the
\* entry of r2, and a Send that began afterwards has reached r2 alone.
C11_Witness ==
    /\ ~alive["r1"]
    /\ alive["r2"]
    /\ [id |-> 1, by |-> "Cleanup", next |-> 3] \in erased
    /\ Len(subscriptions) = 1
    /\ subscriptions[1].receiver = "r2"
    /\ AtReturn("main")
    /\ frame["main"].snap = subscriptions
    /\ frame["main"].done = subscriptions
    /\ received["r1"] = <<>>

\* C12 (as claimed): the list is never added to or erased from by one thread
\* while another thread is inside the loop of a Send and has entries left to
\* read.
C12_MutualExclusion ==
    [][\A t \in Threads :
          (/\ frame[t].active
           /\ frame[t].it <= frame[t].end
           /\ subscriptions' # subscriptions)
              => frame'[t].it = frame[t].it + 1]_vars

\* C13: the callback of an entry a Send selects has run on the sending
\* thread when the step returns if the receiver lives on that thread, and
\* nothing is queued; otherwise the delivery is appended to the queue of the
\* receiver's thread and no callback runs in the step; and every callback
\* that has run, ran on its receiver's thread.
C13_Routing ==
    /\ [](\A r \in Receivers : \A i \in DOMAIN received[r] :
            received[r][i].by = thread(r))
    /\ [][\A t \in Threads : \A d \in NewlyDone(t) :
            IF thread(d.receiver) = t
            THEN /\ received' =
                       [received EXCEPT ![d.receiver] =
                           Append(@, [msg |-> frame[t].msg, sub |-> d,
                                      by |-> t])]
                 /\ queue' = queue
            ELSE /\ queue' =
                       [queue EXCEPT ![thread(d.receiver)] =
                           Append(@, [sub |-> d, msg |-> frame[t].msg])]
                 /\ received' = received]_vars

\* A Send of the main thread is about to return: the callback of r1, on the
\* main thread, has run, and the delivery to r2 is still in the worker's
\* queue.
C13_Witness ==
    /\ AtReturn("main")
    /\ Len(frame["main"].done) = 2
    /\ \E i \in DOMAIN received["r1"] :
          /\ received["r1"][i].msg = frame["main"].msg
          /\ received["r1"][i].by = "main"
    /\ received["r2"] = <<>>
    /\ \E i \in DOMAIN queue["worker"] :
          /\ queue["worker"][i].msg = frame["main"].msg
          /\ queue["worker"][i].sub.receiver = "r2"

\* The messages a thread can send in the volume scenario.
Messages ==
    [from : Threads, seq : 1..PerThread, type : {"MyMessage"}, token : Tokens]

\* Thread m.from is inside the Send of m and the subscriber lives elsewhere.
SendingAcross(m) ==
    /\ frame[m.from].active
    /\ frame[m.from].msg = m
    /\ thread(Subscriber) # m.from

\* The number of invocations of the subscriber for m, run or still queued.
Invocations(m) ==
    Count(received[Subscriber], LAMBDA k : k.msg = m)
        + Count(queue[thread(Subscriber)], LAMBDA k : k.msg = m)

\* C14: a message sent to a matching subscriber that lives on another thread
\* and stays alive is eventually handed to its callback, when that thread's
\* event loop keeps running, and never more than once.
C14_EventualDelivery ==
    /\ \A m \in Messages :
          SendingAcross(m) ~>
              (Count(received[Subscriber], LAMBDA k : k.msg = m) = 1)
    /\ [](\A m \in Messages : Invocations(m) <= 1)

\* The subscriber on the worker has been handed, by the worker's event loop,
\* a message the main thread sent.
C14_Witness ==
    /\ Subscriber = "r2"
    /\ \E i \in DOMAIN received["r2"] :
          /\ received["r2"][i].msg.from = "main"
          /\ received["r2"][i].by = "worker"
    /\ queue["worker"] = <<>>
    /\ ~frame["main"].active

\* C15 (as claimed): Register with a null receiver adds no entry, and no
\* entry with a null receiver is ever handed a message.
C15_NullReceiverRejected ==
    [][/\ \A t \in Threads, type \in Types, token \in RegTokens :
              Register(t, type, token, Null, "append")
                  => subscriptions' = subscriptions
       /\ \A t \in Threads : \A d \in NewlyDone(t) : d.receiver # Null]_vars

\* Entry e has been handed message m: its callback ran, or is queued.
Handed(e, m) ==
    \/ \E i \in DOMAIN received[e.receiver] :
          received[e.receiver][i].sub = e /\ received[e.receiver][i].msg = m
    \/ \E i \in DOMAIN queue[thread(e.receiver)] :
          queue[thread(e.receiver)][i].sub = e
              /\ queue[thread(e.receiver)][i].msg = m

\* C16 (as claimed): when the callback of an entry throws during a Send,
\* every other registered entry the message matches has been handed the
\* message by the time that Send is over.
C16_FailureIsolation ==
    \A r \in Receivers : \A i \in DOMAIN received[r] :
        LET k == received[r][i] IN
        (/\ k.sub.callback = "throws"
         /\ ~(frame[k.msg.from].active /\ frame[k.msg.from].msg = k.msg))
            => \A j \in DOMAIN subscriptions :
                   Selected(subscriptions[j], k.msg, alive)
                       => Handed(subscriptions[j], k.msg)

\* C17 (as claimed): a message sent with a non-empty token is handed only to
\* entries whose stored token equals it.
C17_TokenOnlyEqual ==
    /\ \A r \in Receivers : \A i \in DOMAIN received[r] :
          received[r][i].msg.token # ""
              => received[r][i].sub.token = received[r][i].msg.token
    /\ \A t \in Threads : \A i \in DOMAIN queue[t] :
          queue[t][i].msg.token # ""
              => queue[t][i].sub.token = queue[t][i].msg.token

\* C18 (as claimed): when only callbacks run inline by the sending thread
\* have changed the list, a Send about to return has handed the message to
\* exactly the matching entries of live receivers that were in the list when
\* it began, once each and in list order.
C18_SnapshotIsolation ==
    \A t \in Threads :
        (/\ AtReturn(t)
         /\ \A r \in Receivers : alive[r]
         /\ \A r \in Receivers : \A i \in DOMAIN received[r] :
               received[r][i].by = t)
            => frame[t].done =
                  SelectSeq(frame[t].snap,
                            LAMBDA e : Selected(e, frame[t].msg, alive))

\* The invocation a step adds to the record of receiver r.
Executed(r) == received'[r][Len(received'[r])]

\* C19 (as claimed): whenever a thread runs a delivery, no delivery submitted
\* earlier to that thread is still waiting: either the delivery is the oldest
\* one in the thread's queue, or the queue is empty.
C19_FifoPerContext ==
    [][\A r \in Receivers :
          received'[r] # received[r] =>
              LET q == queue[thread(r)] IN
              \/ q = <<>>
              \/ /\ queue'[thread(r)] = Tail(q)
                 /\ Executed(r).msg = Head(q).msg
                 /\ Executed(r).sub = Head(q).sub]_vars

\* C19 (amended): the deliveries posted to a thread are run by it in the
\* order they were posted: a post appends to the thread's queue, and the
\* event loop runs the head of the queue; a delivery submitted by the thread
\* itself is not queued and leaves the queue as it is.
C19_FifoOfPosted ==
    [][\A t \in Threads :
          \/ queue'[t] = queue[t]
          \/ /\ Len(queue'[t]) = Len(queue[t]) + 1
             /\ SubSeq(queue'[t], 1, Len(queue[t])) = queue[t]
             /\ received' = received
          \/ /\ queue[t] # <<>>
             /\ queue'[t] = Tail(queue[t])
             /\ \E r \in Receivers :
                   /\ thread(r) = t
                   /\ received' =
                         [received EXCEPT ![r] =
                             Append(@, [msg |-> Head(queue[t]).msg,
                                        sub |-> Head(queue[t]).sub,
                                        by |-> t])]]_vars

\* Two messages of the worker were waiting in the main thread's queue
\* together, and the main thread has run the first and then the second.
C19_Witness ==
    /\ Subscriber = "r1"
    /\ \E i, j \in DOMAIN received["r1"] :
          /\ i < j
          /\ received["r1"][i].msg.from = "worker"
          /\ received["r1"][j].msg.from = "worker"
          /\ received["r1"][i].msg.seq = 1
          /\ received["r1"][j].msg.seq = 2
          /\ \A k \in DOMAIN received["r1"] :
                received["r1"][k].msg.from = "main" => k > j
    /\ queue["main"] = <<>>

\* C20: no callback runs for a receiver that has been destroyed: a Send
\* selects no entry of a destroyed receiver, whether or not Cleanup has run,
\* and no delivery posted to a receiver is left in a queue once the receiver
\* is destroyed.
C20_NoDeliveryToDestroyed ==
    /\ [](\A r \in Receivers : ~alive[r] => Posted(queue, r) = {})
    /\ [][/\ \A r \in Receivers : received'[r] # received[r] => alive[r]
           /\ \A t \in Threads : \A d \in NewlyDone(t) :
                 d.receiver \in Receivers /\ alive[d.receiver]]_vars

\* r2 has been destroyed and Cleanup has not run: its entry is still in the
\* list, and a Send the entry matches is about to return without having
\* selected it.
C20_Witness ==
    /\ ~alive["r2"]
    /\ erased = {}
    /\ AtReturn("main")
    /\ frame["main"].snap = subscriptions
    /\ \E i \in DOMAIN subscriptions :
          /\ subscriptions[i].receiver = "r2"
          /\ subscriptions[i].type = frame["main"].msg.type
          /\ tokenMatch(subscriptions[i], frame["main"].msg.token)
    /\ frame["main"].done = <<>>
    /\ received["r2"] = <<>>
    /\ queue["worker"] = <<>>

\* Thread t takes a step of a Send: it enters internalSend, runs one
\* iteration of its loop, or returns.
SendMoves(t) ==
    frame'[t].active # frame[t].active \/ frame'[t].it # frame[t].it

\* C21: a step of a Send leaves the list as it is, entries of destroyed
\* receivers included, unless the step runs a callback that itself calls
\* Unregister; and a step that selects no entry runs no callback and posts
\* nothing.
C21_SendReadOnly ==
    [][\A t \in Threads :
          SendMoves(t) =>
              /\ \/ subscriptions' = subscriptions
                 \/ \E d \in NewlyDone(t) :
                       /\ d.callback = "selfUnregister"
                       /\ thread(d.receiver) = t
                       /\ subscriptions' =
                             UnregisterAll(subscriptions, d.receiver, alive)
              /\ NewlyDone(t) = {} =>
                    /\ subscriptions' = subscriptions
                    /\ received' = received
                    /\ queue' = queue]_vars

\* A Send has returned from a list of two entries, one of a destroyed
\* receiver and one of another type: nothing was invoked, nothing is queued,
\* and both entries are still in the list.
C21_Witness ==
    /\ sent["main"] = 1
    /\ ~frame["main"].active
    /\ Len(subscriptions) = 2
    /\ erased = {}
    /\ \E i \in DOMAIN subscriptions :
          subscriptions[i].receiver \in Receivers
              /\ ~alive[subscriptions[i].receiver]
    /\ \E i \in DOMAIN subscriptions :
          Live(subscriptions[i]) /\ subscriptions[i].type = "AnotherMessage"
    /\ \A i \in DOMAIN subscriptions :
          Live(subscriptions[i]) => subscriptions[i].type = "AnotherMessage"
    /\ \A r \in Receivers : received[r] = <<>>
    /\ \A t \in Threads : queue[t] = <<>>

\* C22 (as claimed): destroying a receiver erases none of its entries, and
\* Unregister(receiver), Unregister<T>(receiver) and Cleanup called afterwards
\* erase the entries the destroyed receiver left.
C22_StaleEntriesRemovable ==
    /\ [][\A r \in Receivers :
            Destroy(r) => subscriptions' = subscriptions]_vars
    /\ [](\A r \in Receivers :
            ~alive[r] =>
                /\ NoEntryOf(UnregisterAll(subscriptions, r, alive), r)
                /\ \A type \in Types :
                      LET after == UnregisterT(subscriptions, r, type, "",
                                               alive)
                      IN  \A i \in DOMAIN after :
                              ~(after[i].receiver = r /\ after[i].type = type)
                /\ NoEntryOf(CleanupLoop(subscriptions, alive), r))

\* C23 (as claimed): whatever receiver (null included) and whatever the state
\* of the list (entries of destroyed receivers included), the entries
\* Unregister<T>(receiver, token) erases were all registered by that receiver
\* and are all of type T.
C23_TypedUnregisterScoped ==
    \A receiver \in Receivers \cup {Null}, type \in Types, token \in Tokens :
        LET after == UnregisterT(subscriptions, receiver, type, token, alive)
        IN  \A e \in Range(subscriptions) \ Range(after) :
                e.receiver = receiver /\ e.type = type

\* The position of entry e in list (an entry occurs once: its id is its own).
Position(list, e) == CHOOSE i \in DOMAIN list : list[i] = e

\* The entries of list stand in the order of their registration.
InOrder(list) ==
    \A i, j \in DOMAIN list : i < j => list[i].id < list[j].id

\* C24: in every reachable state the list holds its entries in the order
\* they were registered, and no step changes the relative order of two
\* entries that survive it: Register puts the new entry last, Unregister
\* (both forms) and Cleanup only delete.
C24_InsertionOrder ==
    /\ [] InOrder(subscriptions)
    /\ [][/\ \A e1, e2 \in Range(subscriptions) \cap Range(subscriptions') :
                Position(subscriptions, e1) < Position(subscriptions, e2)
                    => Position(subscriptions', e1) < Position(subscriptions', e2)
          /\ \A e \in Range(subscriptions') \ Range(subscriptions) :
                Position(subscriptions', e) = Len(subscriptions')]_vars

\* Two entries survive, in their order, the erasure of one registered
\* between them.
C24_Witness ==
    /\ Len(subscriptions) = 2
    /\ \E x \in erased :
          subscriptions[1].id < x.id /\ x.id < subscriptions[2].id

====
